---- MODULE Spec2Model ----
(***************************************************************************)
(* Model of the VibeCast Studio frontend generation-job lifecycle:          *)
(* the zustand generation store (store/generationStore.ts), the HTTP        *)
(* requests it issues through generationApi (api/generation.ts) while they  *)
(* are in flight, and the GenerationPanel component that drives the store.  *)
(*                                                                         *)
(* Spec      drives the store through its actions in any order.             *)
(* SpecPanel drives it through the buttons GenerationPanel renders.         *)
(* In both, worker updates (updateProgress, setCompleted, setError) may     *)
(* arrive at any time: the store does not match them against a job id.      *)
(*                                                                         *)
(* Every async store action is split at its `await`: the call step runs     *)
(* the code before the await and puts a request in flight, the Resolved /   *)
(* Rejected step runs the continuation or the catch block.  Requests in     *)
(* flight may be answered in any order.                                     *)
(*                                                                         *)
(* SpecNav     the ProjectPage with the panel on it, across route changes.  *)
(* SpecProject the project store behind the page's loading screen.          *)
(* SpecEditor  the editor store driven by the ScriptEditor components.      *)
(* SpecReorder reorderSegments on the lists the editor can hold.            *)
(* SpecStop    stop.sh with kill_process of scripts/lib.sh.                 *)
(* SpecConfig  save_config and load_config of scripts/lib.sh.               *)
(***************************************************************************)
EXTENDS Integers, Sequences, FiniteSets, TLC

VARIABLES
    \* ---- generationStore.ts state (lines 38-46)
    currentJobId,            \* string | null
    status,                  \* GenerationStatus | 'idle'
    progress,                \* number
    currentChunk,            \* number
    totalChunks,             \* number
    chunkProgress,           \* number
    estimatedTimeRemaining,  \* number | null, <<>> is null and <<n>> is n
    outputPath,              \* string | null
    error,                   \* string | null
    \* ---- requests in flight
    pendingStarts,           \* generationApi.start(projectId) not yet answered
    pendingCancels,          \* generationApi.cancel(jobId) not yet answered
    jobsCreated,             \* number of jobs the server has created so far
    \* ---- editorStore.ts state read by GenerationPanel
    segments,                \* Segment[]
    voiceMapping,            \* Record<number, string>, speaker id -> voice id
    \* ---- history
    lastOp,                  \* name of the operation that made the last step
    cancelAnswered,          \* a cancel request resolved since the last start
    scenarioA,               \* steps of Scenario A the run has just performed
    chunksWellFormed,        \* the stored chunk counters were not written by
                             \* a payload with current_chunk > total_chunks
    outOfOrder,              \* the last step applied a payload with a lower
                             \* chunk number than the one stored before it
    \* ---- ProjectPage and GenerationPanel on it
    routeProjectId,          \* useParams().projectId of the mounted page
    trackedProject,          \* project_id of the request that created the job
                             \* whose id is in currentJobId (history)
    opened,                  \* id in the URL last passed to window.open
    \* ---- projectStore.ts state read by ProjectPage
    currentProject,          \* id of the Project held, or null
    isLoading,               \* boolean
    pendingProjectLoads,     \* projectsApi.get(id) not yet answered
    \* ---- editorStore.ts state beside segments and voiceMapping
    selectedSegmentId,       \* string | null
    isDirty,                 \* boolean
    pendingEditor,           \* scriptsApi requests not yet answered
    \* ---- stop.sh and kill_process of scripts/lib.sh
    sh,                      \* the shell running stop.sh and what it sees:
                             \*   pc             the command it is at
                             \*   platform       load_config "platform" "cpu"
                             \*   CLEAN          stop.sh was given --clean
                             \*   alive[name]    the process is running
                             \*   termSent[name] SIGTERM was sent to it
                             \*   pidFile[name]  $PID_DIR/name.pid exists
                             \*   killName       $name of kill_process
                             \*   count          $count of kill_process
                             \*   dockerDown     docker compose down has run
                             \*   volumesRemoved docker compose down -v has
                             \*   exitStatus     of stop.sh, -1 while it runs
    \* ---- the config file of scripts/lib.sh
    config                   \* exists  [[ -f "$CONFIG_FILE" ]]
                             \* file    its lines, sequences of characters
                             \* loaded  the lines load_config printed last

genFields == <<currentJobId, status, progress, currentChunk, totalChunks,
               chunkProgress, estimatedTimeRemaining, outputPath, error>>

netVars == <<pendingStarts, pendingCancels, jobsCreated>>

editorVars == <<segments, voiceMapping>>

navVars == <<routeProjectId, trackedProject, opened>>

\* the variables of the components that a specification of the generation
\* store and its panel leaves at rest
projectVars == <<currentProject, isLoading, pendingProjectLoads>>

editorOpVars == <<selectedSegmentId, isDirty, pendingEditor>>

shellVars == <<sh, config>>

auxVars == <<navVars, projectVars, editorOpVars, shellVars>>

\* the generation store with its requests and its history
generationVars == <<genFields, netVars, cancelAnswered, scenarioA,
                    chunksWellFormed, outOfOrder>>

vars == <<currentJobId, status, progress, currentChunk, totalChunks,
          chunkProgress, estimatedTimeRemaining, outputPath, error,
          pendingStarts, pendingCancels, jobsCreated, segments, voiceMapping,
          lastOp, cancelAnswered, scenarioA, chunksWellFormed,
          outOfOrder, auxVars>>

----------------------------------------------------------------------------
\* Bounds of the model

\* jobs the server creates plus start requests in flight
MaxJobs == 2

\* cancel requests in flight
MaxCancels == 2

\* largest chunk index / chunk count a progress update carries
MaxChunk == 1

\* loadProject requests in flight at one time
MaxLoads == 4

\* scriptsApi requests of the editor store in flight at one time
MaxEditorRequests == 2

\* segments of the script that reorderSegments is applied to
MaxSegments == 3

----------------------------------------------------------------------------
\* Values

\* JavaScript null for the string-valued fields
null == "null"

\* types/index.ts: GenerationStatus
GenerationStatus ==
    {"queued", "loading_model", "generating", "stitching",
     "completed", "failed", "cancelled"}

\* GenerationPanel: isRunning
RunningStatuses == {"queued", "loading_model", "generating", "stitching"}

Projects == {"projA", "projB"}

ProgressValues == {0, 50, 100}

ChunkProgressValues == {0, 100}

EtaValues == {<<>>, <<30>>}

OutputPaths == {"/outputs/job.wav"}

WorkerErrors == {"Worker crashed"}

StartErrors == {"Request failed with status code 422",
                "Failed to start generation"}

CancelFailedMessage == "Failed to cancel generation"

\* the id the server gives the n-th job it creates
JobId(n) == ToString(n)

\* the sequence s without its i-th element
RemoveAt(s, i) == SubSeq(s, 1, i - 1) \o SubSeq(s, i + 1, Len(s))

\* the payloads updateProgress is called with while the job moves through its
\* lifecycle: any status, progress and error message, before chunking is known
LifecycleUpdates ==
    [status : GenerationStatus,
     progress : ProgressValues,
     current_chunk : {0},
     total_chunks : {0},
     chunk_progress : {0},
     estimated_time_remaining : {<<>>},
     error_message : {null} \cup WorkerErrors]

\* the payloads updateProgress is called with while chunks are synthesised:
\* any chunk counters, chunk progress and time estimate
ChunkUpdates ==
    [status : {"generating"},
     progress : {50},
     current_chunk : 0..MaxChunk,
     total_chunks : 0..MaxChunk,
     chunk_progress : ChunkProgressValues,
     estimated_time_remaining : EtaValues,
     error_message : {null}]

ProgressUpdates == LifecycleUpdates \cup ChunkUpdates

\* editorStore.ts: the initial voiceMapping, speakers 1..4
DefaultVoiceMapping ==
    <<"en-Carter_man", "en-Alice_woman", "en-Frank_man", "en-Maya_woman">>

\* the speakers and voices VoiceMapper's selects are used with
MappedSpeakers == {1}

Voices == {"en-Carter_man", "en-Alice_woman"}

\* generationApi.start called without its second argument
NoOptions == [k \in {} |-> k]

\* generationApi.start: the body of POST /generation/start,
\* { project_id: projectId, ...options }
StartRequestBody(projectId, options) == [project_id |-> projectId] @@ options

\* history: how far the run has followed Scenario A (submit, start request
\* answered, loading_model, generating chunk 0 of 1, chunk_progress 100,
\* stitching, completed) once updateProgress(p) is applied
ScenarioAfterUpdate(p) ==
    IF p.error_message # null THEN 0
    ELSE IF scenarioA = 2 /\ p.status = "loading_model" THEN 3
    ELSE IF scenarioA = 3 /\ p.status = "generating" /\ p.current_chunk = 0
            /\ p.total_chunks = 1 /\ p.chunk_progress = 0 THEN 4
    ELSE IF scenarioA = 4 /\ p.status = "generating" /\ p.current_chunk = 0
            /\ p.total_chunks = 1 /\ p.chunk_progress = 100 THEN 5
    ELSE IF scenarioA = 5 /\ p.status = "stitching" THEN 6
    ELSE 0

\* segment lists the editor store can hold once a project is loaded
SegmentLists ==
    {<<>>,
     <<[id |-> "s1", text |-> ""]>>,
     <<[id |-> "s1", text |-> "Hello"]>>}

----------------------------------------------------------------------------
\* generationStore.ts

InitStore ==
    /\ currentJobId = null
    /\ status = "idle"
    /\ progress = 0
    /\ currentChunk = 0
    /\ totalChunks = 0
    /\ chunkProgress = 0
    /\ estimatedTimeRemaining = <<>>
    /\ outputPath = null
    /\ error = null
    /\ pendingStarts = <<>>
    /\ pendingCancels = <<>>
    /\ jobsCreated = 0
    /\ lastOp = "init"
    /\ cancelAnswered = FALSE
    /\ scenarioA = 0
    /\ chunksWellFormed = TRUE
    /\ outOfOrder = FALSE

\* startGeneration up to its await: set({...}) then generationApi.start
startGeneration(projectId) ==
    /\ jobsCreated + Len(pendingStarts) < MaxJobs
    /\ status' = "queued"
    /\ progress' = 0
    /\ currentChunk' = 0
    /\ totalChunks' = 0
    /\ chunkProgress' = 0
    /\ error' = null
    /\ outputPath' = null
    /\ pendingStarts' =
           Append(pendingStarts, StartRequestBody(projectId, NoOptions))
    /\ lastOp' = "startGeneration"
    /\ scenarioA' = 1
    /\ chunksWellFormed' = TRUE
    /\ outOfOrder' = FALSE
    /\ cancelAnswered' = FALSE
    /\ UNCHANGED <<currentJobId, estimatedTimeRemaining, pendingCancels,
                   jobsCreated, editorVars>>

\* startGeneration after the await resolved: set({ currentJobId: job.id })
startResolved(i) ==
    /\ currentJobId' = JobId(jobsCreated + 1)
    /\ jobsCreated' = jobsCreated + 1
    /\ pendingStarts' = RemoveAt(pendingStarts, i)
    /\ lastOp' = "startResolved"
    /\ scenarioA' = (IF scenarioA = 1 THEN 2 ELSE 0)
    /\ UNCHANGED chunksWellFormed
    /\ outOfOrder' = FALSE
    /\ UNCHANGED cancelAnswered
    /\ UNCHANGED <<status, progress, currentChunk, totalChunks, chunkProgress,
                   estimatedTimeRemaining, outputPath, error, pendingCancels,
                   editorVars>>

\* a catch block that marks the store failed without recording the message
startRejected_NoMessage(i, message) ==
    /\ status' = "failed"
    /\ pendingStarts' = RemoveAt(pendingStarts, i)
    /\ lastOp' = "startRejected"
    /\ scenarioA' = 0
    /\ UNCHANGED chunksWellFormed
    /\ outOfOrder' = FALSE
    /\ UNCHANGED cancelAnswered
    /\ UNCHANGED <<currentJobId, progress, currentChunk, totalChunks,
                   chunkProgress, estimatedTimeRemaining, outputPath, error,
                   pendingCancels, jobsCreated, editorVars>>

\* startGeneration's catch block
startRejected(i, message) ==
    /\ status' = "failed"
    /\ error' = message
    /\ pendingStarts' = RemoveAt(pendingStarts, i)
    /\ lastOp' = "startRejected"
    /\ scenarioA' = 0
    /\ UNCHANGED chunksWellFormed
    /\ outOfOrder' = FALSE
    /\ UNCHANGED cancelAnswered
    /\ UNCHANGED <<currentJobId, progress, currentChunk, totalChunks,
                   chunkProgress, estimatedTimeRemaining, outputPath,
                   pendingCancels, jobsCreated, editorVars>>

\* cancelGeneration up to its await: returns at once when currentJobId is
\* falsy, otherwise generationApi.cancel(currentJobId)
cancelGeneration ==
    /\ lastOp' = "cancelGeneration"
    /\ scenarioA' = 0
    /\ UNCHANGED chunksWellFormed
    /\ outOfOrder' = FALSE
    /\ UNCHANGED cancelAnswered
    /\ IF currentJobId = null
       THEN UNCHANGED pendingCancels
       ELSE /\ Len(pendingCancels) < MaxCancels
            /\ pendingCancels' = Append(pendingCancels, currentJobId)
    /\ UNCHANGED <<genFields, pendingStarts, jobsCreated, editorVars>>

\* cancelGeneration after the await resolved: set({ status: 'cancelled' })
cancelResolved(i) ==
    /\ status' = "cancelled"
    /\ pendingCancels' = RemoveAt(pendingCancels, i)
    /\ lastOp' = "cancelResolved"
    /\ scenarioA' = 0
    /\ UNCHANGED chunksWellFormed
    /\ outOfOrder' = FALSE
    /\ cancelAnswered' = TRUE
    /\ UNCHANGED <<currentJobId, progress, currentChunk, totalChunks,
                   chunkProgress, estimatedTimeRemaining, outputPath, error,
                   pendingStarts, jobsCreated, editorVars>>

\* cancelGeneration's catch block
cancelRejected(i) ==
    /\ error' = CancelFailedMessage
    /\ pendingCancels' = RemoveAt(pendingCancels, i)
    /\ lastOp' = "cancelRejected"
    /\ scenarioA' = 0
    /\ UNCHANGED chunksWellFormed
    /\ outOfOrder' = FALSE
    /\ UNCHANGED cancelAnswered
    /\ UNCHANGED <<currentJobId, status, progress, currentChunk, totalChunks,
                   chunkProgress, estimatedTimeRemaining, outputPath,
                   pendingStarts, jobsCreated, editorVars>>

\* updateProgress that never lets the stored chunk number go back
updateProgress_KeepsHighestChunk(p) ==
    /\ status' = p.status
    /\ progress' = p.progress
    /\ currentChunk' = (IF currentChunk >= p.current_chunk
                        THEN currentChunk ELSE p.current_chunk)
    /\ totalChunks' = p.total_chunks
    /\ chunkProgress' = p.chunk_progress
    /\ estimatedTimeRemaining' = p.estimated_time_remaining
    /\ error' = p.error_message
    /\ lastOp' = "updateProgress"
    /\ scenarioA' = ScenarioAfterUpdate(p)
    /\ chunksWellFormed' = (p.current_chunk <= p.total_chunks)
    /\ outOfOrder' = (p.current_chunk < currentChunk)
    /\ UNCHANGED cancelAnswered
    /\ UNCHANGED <<currentJobId, outputPath, netVars, editorVars>>

updateProgress(p) ==
    /\ status' = p.status
    /\ progress' = p.progress
    /\ currentChunk' = p.current_chunk
    /\ totalChunks' = p.total_chunks
    /\ chunkProgress' = p.chunk_progress
    /\ estimatedTimeRemaining' = p.estimated_time_remaining
    /\ error' = p.error_message
    /\ lastOp' = "updateProgress"
    /\ scenarioA' = ScenarioAfterUpdate(p)
    /\ chunksWellFormed' = (p.current_chunk <= p.total_chunks)
    /\ outOfOrder' = (p.current_chunk < currentChunk)
    /\ UNCHANGED cancelAnswered
    /\ UNCHANGED <<currentJobId, outputPath, netVars, editorVars>>

\* setCompleted that forgets to set progress to 100
setCompleted_KeepsProgress(path) ==
    /\ status' = "completed"
    /\ outputPath' = path
    /\ lastOp' = "setCompleted"
    /\ scenarioA' = (IF scenarioA = 6 THEN 7 ELSE 0)
    /\ UNCHANGED <<currentJobId, progress, currentChunk, totalChunks,
                   chunkProgress, estimatedTimeRemaining, error, netVars,
                   editorVars, cancelAnswered, chunksWellFormed>>
    /\ outOfOrder' = FALSE

setCompleted(path) ==
    /\ status' = "completed"
    /\ progress' = 100
    /\ outputPath' = path
    /\ lastOp' = "setCompleted"
    /\ scenarioA' = (IF scenarioA = 6 THEN 7 ELSE 0)
    /\ UNCHANGED chunksWellFormed
    /\ outOfOrder' = FALSE
    /\ UNCHANGED cancelAnswered
    /\ UNCHANGED <<currentJobId, currentChunk, totalChunks, chunkProgress,
                   estimatedTimeRemaining, error, netVars, editorVars>>

setError(message) ==
    /\ status' = "failed"
    /\ error' = message
    /\ lastOp' = "setError"
    /\ scenarioA' = 0
    /\ UNCHANGED chunksWellFormed
    /\ outOfOrder' = FALSE
    /\ UNCHANGED cancelAnswered
    /\ UNCHANGED <<currentJobId, progress, currentChunk, totalChunks,
                   chunkProgress, estimatedTimeRemaining, outputPath, netVars,
                   editorVars>>

reset ==
    /\ currentJobId' = null
    /\ status' = "idle"
    /\ progress' = 0
    /\ currentChunk' = 0
    /\ totalChunks' = 0
    /\ chunkProgress' = 0
    /\ estimatedTimeRemaining' = <<>>
    /\ outputPath' = null
    /\ error' = null
    /\ lastOp' = "reset"
    /\ scenarioA' = 0
    /\ chunksWellFormed' = TRUE
    /\ outOfOrder' = FALSE
    /\ cancelAnswered' = FALSE
    /\ UNCHANGED <<netVars, editorVars>>

----------------------------------------------------------------------------
\* The store driven through its actions in any order

\* no project page is followed
InitNavVars ==
    /\ routeProjectId = null
    /\ trackedProject = null
    /\ opened = null

\* projectStore.ts lines 26-29
InitProjectStore ==
    /\ currentProject = null
    /\ isLoading = FALSE
    /\ pendingProjectLoads = <<>>

\* editorStore.ts lines 33 and 40
InitEditorOps ==
    /\ selectedSegmentId = null
    /\ isDirty = FALSE
    /\ pendingEditor = <<>>

\* the scripts' processes and files
Natives == {"backend", "worker"}

\* stop.sh with its processes, before it has run a command
ShellAtStart(platform, CLEAN, alive, pidFile) ==
    [pc |-> "main", platform |-> platform, CLEAN |-> CLEAN, alive |-> alive,
     termSent |-> [n \in Natives |-> FALSE], pidFile |-> pidFile,
     killName |-> null, count |-> 0, dockerDown |-> FALSE,
     volumesRemoved |-> FALSE, exitStatus |-> -1]

\* no config file has been written
NoConfig == [exists |-> FALSE, file |-> <<>>, loaded |-> <<>>]

\* stop.sh is not running and no config file has been written
InitShell ==
    /\ sh = [pc |-> "off"]
    /\ config = NoConfig

InitAux == InitNavVars /\ InitProjectStore /\ InitEditorOps /\ InitShell

Init ==
    /\ InitStore
    /\ segments = <<>>
    /\ voiceMapping = DefaultVoiceMapping
    /\ InitAux

StartGeneration ==
    /\ \E projectId \in Projects : startGeneration(projectId)
    /\ UNCHANGED auxVars

StartResolved ==
    /\ \E i \in 1..Len(pendingStarts) : startResolved(i)
    /\ UNCHANGED auxVars

StartRejected ==
    /\ \E i \in 1..Len(pendingStarts) :
          \E m \in StartErrors : startRejected(i, m)
    /\ UNCHANGED auxVars

CancelGeneration == cancelGeneration /\ UNCHANGED auxVars

CancelResolved ==
    /\ \E i \in 1..Len(pendingCancels) : cancelResolved(i)
    /\ UNCHANGED auxVars

CancelRejected ==
    /\ \E i \in 1..Len(pendingCancels) : cancelRejected(i)
    /\ UNCHANGED auxVars

UpdateProgress ==
    /\ \E p \in ProgressUpdates : updateProgress(p)
    /\ UNCHANGED auxVars

SetCompleted ==
    /\ \E path \in OutputPaths : setCompleted(path)
    /\ UNCHANGED auxVars

SetError ==
    /\ \E m \in WorkerErrors : setError(m)
    /\ UNCHANGED auxVars

Reset == reset /\ UNCHANGED auxVars

Next ==
    \/ StartGeneration
    \/ StartResolved
    \/ StartRejected
    \/ CancelGeneration
    \/ CancelResolved
    \/ CancelRejected
    \/ UpdateProgress
    \/ SetCompleted
    \/ SetError
    \/ Reset

Spec == Init /\ [][Next]_vars

----------------------------------------------------------------------------
\* GenerationPanel (components/generation/GenerationPanel.tsx)

\* handleStart without its check of the segment list
handleStart_NoCheck(projectId) == startGeneration(projectId)

\* handleStart: alert and return when there are no segments, else start
handleStart(projectId) ==
    IF Len(segments) = 0
    THEN /\ lastOp' = "handleStart"
         /\ scenarioA' = 0
         /\ outOfOrder' = FALSE
         /\ UNCHANGED <<genFields, netVars, editorVars, cancelAnswered,
                        chunksWellFormed>>
    ELSE startGeneration(projectId)

\* the Generate Audio button is rendered when isIdle; its onClick is
\* handleStart with the panel's projectId.  The button's disabled attribute
\* repeats handleStart's own test of segments.length and is left to
\* handleStart, so that the handler's empty-list branch is exercised.
GenerateButton ==
    /\ status = "idle"
    /\ \E projectId \in Projects : handleStart(projectId)
    /\ UNCHANGED auxVars

\* the Cancel button is rendered when isRunning
CancelButton ==
    /\ status \in RunningStatuses
    /\ cancelGeneration
    /\ UNCHANGED auxVars

\* the Start Over button is rendered when isCompleted || isFailed
StartOverButton ==
    /\ status \in {"completed", "failed"}
    /\ reset
    /\ UNCHANGED auxVars

\* the panel is mounted on a project page whose segments are loaded
InitPanel ==
    /\ InitStore
    /\ segments \in SegmentLists
    /\ voiceMapping = DefaultVoiceMapping
    /\ InitAux

NextPanel ==
    \/ GenerateButton
    \/ CancelButton
    \/ StartOverButton
    \/ StartResolved
    \/ StartRejected
    \/ CancelResolved
    \/ CancelRejected
    \/ UpdateProgress
    \/ SetCompleted
    \/ SetError

SpecPanel == InitPanel /\ [][NextPanel]_vars

----------------------------------------------------------------------------
\* editorStore.ts: the voice mapping, edited while the panel is mounted

updateVoiceForSpeaker(speakerId, voiceId) ==
    /\ voiceMapping' = [voiceMapping EXCEPT ![speakerId] = voiceId]
    /\ lastOp' = "updateVoiceForSpeaker"
    /\ outOfOrder' = FALSE
    /\ UNCHANGED <<genFields, netVars, segments, cancelAnswered, scenarioA,
                   chunksWellFormed>>

UpdateVoiceForSpeaker ==
    /\ \E speakerId \in MappedSpeakers : \E voiceId \in Voices :
          updateVoiceForSpeaker(speakerId, voiceId)
    /\ UNCHANGED auxVars

NextSubmit ==
    \/ UpdateVoiceForSpeaker
    \/ GenerateButton
    \/ CancelButton
    \/ StartOverButton
    \/ StartResolved
    \/ StartRejected
    \/ CancelResolved
    \/ CancelRejected
    \/ UpdateProgress
    \/ SetCompleted
    \/ SetError

SpecSubmit == InitPanel /\ [][NextSubmit]_vars

----------------------------------------------------------------------------
\* ProjectPage with GenerationPanel: the route parameter is the panel's
\* projectId.  The generation store is one module-level object, shared by
\* the pages of all projects.  The requests the page itself sends on a
\* navigation (loadProject, loadSegments) do not touch the generation
\* store and are followed in the specifications of their own stores.

\* GenerationPanel's flags of the status (lines 96-99)
isIdle == status = "idle"

isRunning == status \in RunningStatuses

isCompleted == status = "completed"

isFailed == status = "failed"

\* the history kept beside an action of the store: no window is opened
NoWindow == opened' = null /\ UNCHANGED <<projectVars, editorOpVars,
                                          shellVars>>

\* a route change: the effect's cleanup runs clearEditor
navigate(projectId) ==
    /\ routeProjectId' = projectId
    /\ segments' = <<>>
    /\ lastOp' = "navigate"
    /\ scenarioA' = 0
    /\ outOfOrder' = FALSE
    /\ NoWindow
    /\ UNCHANGED <<genFields, netVars, voiceMapping, cancelAnswered,
                   chunksWellFormed, trackedProject>>

\* the segments of the page's project have been loaded into the editor
segmentsLoaded(list) ==
    /\ segments' = list
    /\ lastOp' = "segmentsLoaded"
    /\ scenarioA' = 0
    /\ outOfOrder' = FALSE
    /\ NoWindow
    /\ UNCHANGED <<genFields, netVars, voiceMapping, cancelAnswered,
                   chunksWellFormed, routeProjectId, trackedProject>>

\* handleDownload: opens the export URL built from the panel's projectId
handleDownload(projectId) ==
    /\ opened' = (IF outputPath # null THEN projectId ELSE null)
    /\ UNCHANGED <<projectVars, editorOpVars, shellVars>>
    /\ lastOp' = "handleDownload"
    /\ scenarioA' = 0
    /\ outOfOrder' = FALSE
    /\ UNCHANGED <<genFields, netVars, editorVars, cancelAnswered,
                   chunksWellFormed, routeProjectId, trackedProject>>

NavigateOnPage ==
    \E projectId \in Projects \ {routeProjectId} : navigate(projectId)

SegmentsLoadedOnPage ==
    /\ segments = <<>>
    /\ \E list \in SegmentLists \ {<<>>} : segmentsLoaded(list)

GenerateOnPage ==
    /\ isIdle
    /\ handleStart(routeProjectId)
    /\ NoWindow
    /\ UNCHANGED <<routeProjectId, trackedProject>>

CancelOnPage ==
    /\ isRunning
    /\ cancelGeneration
    /\ NoWindow
    /\ UNCHANGED <<routeProjectId, trackedProject>>

StartOverOnPage ==
    /\ isCompleted \/ isFailed
    /\ reset
    /\ NoWindow
    /\ trackedProject' = null
    /\ UNCHANGED routeProjectId

\* the Download Audio button is rendered when isCompleted && outputPath
DownloadOnPage ==
    /\ isCompleted
    /\ outputPath # null
    /\ handleDownload(routeProjectId)

\* the server creates the job for the project the request names
StartResolvedOnPage ==
    \E i \in 1..Len(pendingStarts) :
        /\ startResolved(i)
        /\ trackedProject' = pendingStarts[i].project_id
        /\ NoWindow
        /\ UNCHANGED routeProjectId

StartRejectedOnPage ==
    /\ \E i \in 1..Len(pendingStarts) :
          \E m \in StartErrors : startRejected(i, m)
    /\ NoWindow
    /\ UNCHANGED <<routeProjectId, trackedProject>>

CancelResolvedOnPage ==
    /\ \E i \in 1..Len(pendingCancels) : cancelResolved(i)
    /\ NoWindow
    /\ UNCHANGED <<routeProjectId, trackedProject>>

CancelRejectedOnPage ==
    /\ \E i \in 1..Len(pendingCancels) : cancelRejected(i)
    /\ NoWindow
    /\ UNCHANGED <<routeProjectId, trackedProject>>

SetCompletedOnPage ==
    /\ \E path \in OutputPaths : setCompleted(path)
    /\ NoWindow
    /\ UNCHANGED <<routeProjectId, trackedProject>>

SetErrorOnPage ==
    /\ \E m \in WorkerErrors : setError(m)
    /\ NoWindow
    /\ UNCHANGED <<routeProjectId, trackedProject>>

UpdateProgressOnPage ==
    /\ \E p \in LifecycleUpdates : updateProgress(p)
    /\ NoWindow
    /\ UNCHANGED <<routeProjectId, trackedProject>>

\* the page of some project is mounted with its segments loaded
InitNav ==
    /\ InitStore
    /\ segments \in SegmentLists
    /\ voiceMapping = DefaultVoiceMapping
    /\ routeProjectId \in Projects
    /\ trackedProject = null
    /\ opened = null
    /\ InitProjectStore
    /\ InitEditorOps
    /\ InitShell

NextNav ==
    \/ NavigateOnPage
    \/ SegmentsLoadedOnPage
    \/ GenerateOnPage
    \/ CancelOnPage
    \/ StartOverOnPage
    \/ DownloadOnPage
    \/ StartResolvedOnPage
    \/ StartRejectedOnPage
    \/ CancelResolvedOnPage
    \/ CancelRejectedOnPage
    \/ SetCompletedOnPage
    \/ SetErrorOnPage
    \/ UpdateProgressOnPage

SpecNav == InitNav /\ [][NextNav]_vars

----------------------------------------------------------------------------
\* ProjectPage and the project store.  The page's effect calls
\* loadProject(projectId) when it mounts and whenever the route parameter
\* changes; the page renders the project content when isLoading is false
\* and currentProject is non-null.

\* loadProject up to its await
loadProject(id) ==
    /\ isLoading' = TRUE
    /\ pendingProjectLoads' = Append(pendingProjectLoads, id)
    /\ UNCHANGED currentProject

\* loadProject's continuation: the server returns the project asked for
loadProjectResolved(i) ==
    /\ currentProject' = pendingProjectLoads[i]
    /\ isLoading' = FALSE
    /\ pendingProjectLoads' = RemoveAt(pendingProjectLoads, i)
    /\ lastOp' = "loadProjectResolved"
    /\ UNCHANGED <<generationVars, editorVars, navVars, editorOpVars,
                   shellVars>>

\* loadProject's catch block
loadProjectRejected(i) ==
    /\ isLoading' = FALSE
    /\ pendingProjectLoads' = RemoveAt(pendingProjectLoads, i)
    /\ lastOp' = "loadProjectRejected"
    /\ UNCHANGED <<currentProject, generationVars, editorVars, navVars,
                   editorOpVars, shellVars>>

\* the route parameter changes and the effect runs
routeChange(projectId) ==
    /\ routeProjectId' = projectId
    /\ loadProject(projectId)
    /\ lastOp' = "routeChange"
    /\ UNCHANGED <<generationVars, editorVars, trackedProject, opened,
                   editorOpVars, shellVars>>

RouteChange ==
    /\ Len(pendingProjectLoads) < MaxLoads
    /\ \E projectId \in Projects \ {routeProjectId} : routeChange(projectId)

LoadProjectResolved ==
    \E i \in 1..Len(pendingProjectLoads) : loadProjectResolved(i)

LoadProjectRejected ==
    \E i \in 1..Len(pendingProjectLoads) : loadProjectRejected(i)

\* the page has mounted for some project and its effect has run
InitProject ==
    /\ InitStore
    /\ segments = <<>>
    /\ voiceMapping = DefaultVoiceMapping
    /\ routeProjectId \in Projects
    /\ trackedProject = null
    /\ opened = null
    /\ currentProject = null
    /\ isLoading = TRUE
    /\ pendingProjectLoads = <<routeProjectId>>
    /\ InitEditorOps
    /\ InitShell

NextProject ==
    \/ RouteChange
    \/ LoadProjectResolved
    \/ LoadProjectRejected

SpecProject == InitProject /\ [][NextProject]_vars

\* what ProjectPage renders (lines 23-29)
RendersProject == ~isLoading /\ currentProject # null

----------------------------------------------------------------------------
\* editorStore.ts: the script editor's store.  A segment carries its id,
\* the script (project) it belongs to and its order; the text, speaker and
\* voice fields, and the store's isLoading and error, are read by no
\* property below and are left out.  Every asynchronous action is split at
\* its await; the requests in flight are answered in any order.

EditorSegment(id, projectId, order) ==
    [id |-> id, script_id |-> projectId, order |-> order]

\* the id of the k-th segment of projA's script
SegmentId(k) == "a" \o ToString(k)

\* a script of projA with n segments, in order
ScriptOfLength(n) ==
    [k \in 1..n |-> EditorSegment(SegmentId(k), "projA", k - 1)]

\* GET /scripts/{projectId}/segments: the script stored for the project
StoredSegments(projectId) ==
    IF projectId = "projA"
    THEN ScriptOfLength(2)
    ELSE <<EditorSegment("b1", projectId, 0)>>

\* POST /scripts/{projectId}/parse: segments made anew from the text
ParsedSegments(projectId) == <<EditorSegment("p1", projectId, 0)>>

\* POST /scripts/{projectId}/segments: the segment the server created
CreatedSegment(projectId) == EditorSegment("n1", projectId, 2)

Ids(list) == [i \in 1..Len(list) |-> list[i].id]

IdSet(list) == {list[i].id : i \in 1..Len(list)}

\* list.splice(start, 0, item) on a copy, start a 0-based index <= length
InsertAt(list, start, item) ==
    SubSeq(list, 1, start) \o <<item>> \o SubSeq(list, start + 1, Len(list))

EditorRequest(op, projectId, segmentId) ==
    [op |-> op, projectId |-> projectId, segmentId |-> segmentId]

\* the part of an asynchronous action before its await
editorCall(op, projectId, segmentId) ==
    /\ pendingEditor' =
          Append(pendingEditor, EditorRequest(op, projectId, segmentId))
    /\ lastOp' = op
    /\ UNCHANGED <<segments, selectedSegmentId, isDirty, voiceMapping,
                   generationVars, trackedProject, opened, projectVars,
                   shellVars>>

\* the catch block of an asynchronous action: error (and isLoading) only
editorRejected(i) ==
    /\ pendingEditor' = RemoveAt(pendingEditor, i)
    /\ lastOp' = "editorRejected"
    /\ UNCHANGED <<segments, selectedSegmentId, isDirty, voiceMapping,
                   generationVars, navVars, projectVars, shellVars>>

\* loadSegments: set({ segments, isLoading: false, isDirty: false })
loadSegmentsResolved(i) ==
    /\ pendingEditor[i].op = "loadSegments"
    /\ segments' = StoredSegments(pendingEditor[i].projectId)
    /\ isDirty' = FALSE
    /\ pendingEditor' = RemoveAt(pendingEditor, i)
    /\ lastOp' = "loadSegmentsResolved"
    /\ UNCHANGED <<selectedSegmentId, voiceMapping, generationVars, navVars,
                   projectVars, shellVars>>

\* parseText: set({ segments, isLoading: false, isDirty: true })
parseTextResolved(i) ==
    /\ pendingEditor[i].op = "parseText"
    /\ segments' = ParsedSegments(pendingEditor[i].projectId)
    /\ isDirty' = TRUE
    /\ pendingEditor' = RemoveAt(pendingEditor, i)
    /\ lastOp' = "parseTextResolved"
    /\ UNCHANGED <<selectedSegmentId, voiceMapping, generationVars, navVars,
                   projectVars, shellVars>>

\* addSegment: segments: [...state.segments, segment]
addSegmentResolved(i) ==
    /\ pendingEditor[i].op = "addSegment"
    /\ CreatedSegment(pendingEditor[i].projectId).id \notin IdSet(segments)
    /\ segments' =
          Append(segments, CreatedSegment(pendingEditor[i].projectId))
    /\ isDirty' = TRUE
    /\ pendingEditor' = RemoveAt(pendingEditor, i)
    /\ lastOp' = "addSegmentResolved"
    /\ UNCHANGED <<selectedSegmentId, voiceMapping, generationVars, navVars,
                   projectVars, shellVars>>

\* updateSegment: segments.map(s => s.id === segmentId ? updated : s); the
\* server's copy differs from the local one in fields left out here
updateSegmentResolved(i) ==
    /\ pendingEditor[i].op = "updateSegment"
    /\ segments' =
          [k \in 1..Len(segments) |->
              IF segments[k].id = pendingEditor[i].segmentId
              THEN EditorSegment(pendingEditor[i].segmentId,
                                 segments[k].script_id, segments[k].order)
              ELSE segments[k]]
    /\ isDirty' = TRUE
    /\ pendingEditor' = RemoveAt(pendingEditor, i)
    /\ lastOp' = "updateSegmentResolved"
    /\ UNCHANGED <<selectedSegmentId, voiceMapping, generationVars, navVars,
                   projectVars, shellVars>>

\* deleteSegment: filter the segment out, drop the selection if it was it
deleteSegmentResolved(i) ==
    /\ pendingEditor[i].op = "deleteSegment"
    /\ segments' =
          SelectSeq(segments, LAMBDA seg : seg.id # pendingEditor[i].segmentId)
    /\ selectedSegmentId' =
          (IF selectedSegmentId = pendingEditor[i].segmentId
           THEN null ELSE selectedSegmentId)
    /\ isDirty' = TRUE
    /\ pendingEditor' = RemoveAt(pendingEditor, i)
    /\ lastOp' = "deleteSegmentResolved"
    /\ UNCHANGED <<voiceMapping, generationVars, navVars, projectVars,
                   shellVars>>

\* reorderSegments with a swap of the two positions in place of the splices
reorderSegments_Swap(fromIndex, toIndex) ==
    /\ segments' =
          [k \in 1..Len(segments) |->
              [(IF k = toIndex + 1 THEN segments[fromIndex + 1]
                ELSE IF k = fromIndex + 1 THEN segments[toIndex + 1]
                ELSE segments[k]) EXCEPT !.order = k - 1]]
    /\ isDirty' = TRUE
    /\ lastOp' = "reorderSegments"
    /\ UNCHANGED <<selectedSegmentId, pendingEditor, voiceMapping,
                   generationVars, navVars, projectVars, shellVars>>

\* reorderSegments: splice the segment out, splice it in, renumber order
reorderSegments(fromIndex, toIndex) ==
    LET removed == segments[fromIndex + 1]
        without == RemoveAt(segments, fromIndex + 1)
        newSegments == InsertAt(without, toIndex, removed)
    IN  /\ segments' =
              [k \in 1..Len(newSegments) |->
                  [newSegments[k] EXCEPT !.order = k - 1]]
        /\ isDirty' = TRUE
        /\ lastOp' = "reorderSegments"
        /\ UNCHANGED <<selectedSegmentId, pendingEditor, voiceMapping,
                       generationVars, navVars, projectVars, shellVars>>

selectSegment(segmentId) ==
    /\ selectedSegmentId' = segmentId
    /\ lastOp' = "selectSegment"
    /\ UNCHANGED <<segments, isDirty, pendingEditor, voiceMapping,
                   generationVars, navVars, projectVars, shellVars>>

clearEditor ==
    /\ segments' = <<>>
    /\ selectedSegmentId' = null
    /\ isDirty' = FALSE
    /\ lastOp' = "clearEditor"
    /\ UNCHANGED <<pendingEditor, voiceMapping, generationVars, navVars,
                   projectVars, shellVars>>

EditorCanSend == Len(pendingEditor) < MaxEditorRequests

\* ScriptEditor's load effect: it runs when the editor is mounted and
\* whenever the projectId of the page changes
LoadSegments ==
    /\ EditorCanSend
    /\ \E projectId \in Projects :
          /\ routeProjectId' = projectId
          /\ editorCall("loadSegments", projectId, null)

\* EditorToolbar: parse the pasted text into the project of the page
ParseText ==
    /\ EditorCanSend
    /\ routeProjectId # null
    /\ editorCall("parseText", routeProjectId, null)
    /\ UNCHANGED routeProjectId

\* ScriptEditor: handleAddSegment
AddSegment ==
    /\ EditorCanSend
    /\ routeProjectId # null
    /\ editorCall("addSegment", routeProjectId, null)
    /\ UNCHANGED routeProjectId

\* SegmentBlock saves an edit of a segment of the list
UpdateSegment ==
    /\ EditorCanSend
    /\ routeProjectId # null
    /\ \E k \in 1..Len(segments) :
          editorCall("updateSegment", routeProjectId, segments[k].id)
    /\ UNCHANGED routeProjectId

\* SegmentBlock deletes a segment of the list
DeleteSegment ==
    /\ EditorCanSend
    /\ routeProjectId # null
    /\ \E k \in 1..Len(segments) :
          editorCall("deleteSegment", routeProjectId, segments[k].id)
    /\ UNCHANGED routeProjectId

EditorRejected == \E i \in 1..Len(pendingEditor) : editorRejected(i)

LoadSegmentsResolved ==
    \E i \in 1..Len(pendingEditor) : loadSegmentsResolved(i)

ParseTextResolved == \E i \in 1..Len(pendingEditor) : parseTextResolved(i)

AddSegmentResolved == \E i \in 1..Len(pendingEditor) : addSegmentResolved(i)

UpdateSegmentResolved ==
    \E i \in 1..Len(pendingEditor) : updateSegmentResolved(i)

DeleteSegmentResolved ==
    \E i \in 1..Len(pendingEditor) : deleteSegmentResolved(i)

ReorderSegments ==
    \E fromIndex \in 0..(Len(segments) - 1) :
        \E toIndex \in 0..(Len(segments) - 1) :
            reorderSegments(fromIndex, toIndex)

\* ScriptEditor: onSelect of a block of the list
SelectSegment == \E k \in 1..Len(segments) : selectSegment(segments[k].id)

ClearEditor == clearEditor

InitEditor ==
    /\ InitStore
    /\ segments = <<>>
    /\ voiceMapping = DefaultVoiceMapping
    /\ InitAux

NextEditor ==
    \/ LoadSegments
    \/ ParseText
    \/ AddSegment
    \/ UpdateSegment
    \/ DeleteSegment
    \/ EditorRejected
    \/ LoadSegmentsResolved
    \/ ParseTextResolved
    \/ AddSegmentResolved
    \/ UpdateSegmentResolved
    \/ DeleteSegmentResolved
    \/ ReorderSegments
    \/ SelectSegment
    \/ ClearEditor

SpecEditor == InitEditor /\ [][NextEditor]_vars

----------------------------------------------------------------------------
\* reorderSegments on its own: the editor holds what is left of a loaded
\* script after some segments were deleted, so order fields may be stale;
\* a segment may be selected and the store may be dirty or not.

RECURSIVE KeptSegments(_, _)
\* the segments of the script whose numbers are in kept, in script order
KeptSegments(script, kept) ==
    IF script = <<>>
    THEN <<>>
    ELSE IF Len(script) \in kept
         THEN Append(KeptSegments(SubSeq(script, 1, Len(script) - 1), kept),
                     script[Len(script)])
         ELSE KeptSegments(SubSeq(script, 1, Len(script) - 1), kept)

InitReorder ==
    /\ InitStore
    /\ voiceMapping = DefaultVoiceMapping
    /\ InitNavVars
    /\ InitProjectStore
    /\ InitShell
    /\ \E kept \in SUBSET (1..MaxSegments) :
          segments = KeptSegments(ScriptOfLength(MaxSegments), kept)
    /\ selectedSegmentId = null
    /\ isDirty \in BOOLEAN
    /\ pendingEditor = <<>>

NextReorder ==
    \/ ReorderSegments
    \/ SelectSegment

SpecReorder == InitReorder /\ [][NextReorder]_vars

----------------------------------------------------------------------------
\* The store with the scheduling the code gives it.  A request the store
\* sent is answered: axios settles the promise and the code after the await
\* runs, which is the fairness stated.  The other operations run only when
\* something calls them: startGeneration, cancelGeneration and reset on a
\* click, and updateProgress, setCompleted and setError on a call that no
\* component, effect or timer of the sources makes (generationApi.getStatus
\* has no caller either), so no fairness is stated for them.

StartAnswered == StartResolved \/ StartRejected

CancelAnswered == CancelResolved \/ CancelRejected

SpecLive ==
    /\ Init
    /\ [][Next]_vars
    /\ WF_vars(StartAnswered)
    /\ WF_vars(CancelAnswered)

----------------------------------------------------------------------------
\* Properties

\* the edges of the job lifecycle state machine
LifecycleEdge(from, to) ==
    \/ from = "queued" /\ to \in {"loading_model", "cancelled", "failed"}
    \/ from = "loading_model" /\ to \in {"generating", "cancelled", "failed"}
    \/ from = "generating"
          /\ to \in {"generating", "stitching", "cancelled", "failed"}
    \/ from = "stitching" /\ to \in {"completed", "cancelled", "failed"}

\* the terminal statuses of the lifecycle state machine
TerminalStatuses == {"completed", "failed", "cancelled"}

\* the store tracks a job the server has created
JobTracked == currentJobId # null /\ status \in GenerationStatus

\* the steps that apply a worker update to the store
WorkerUpdateOps == {"updateProgress", "setCompleted", "setError"}

\* the steps that apply the outcome of a cancel request to the store
CancelOutcomeOps == {"cancelResolved", "cancelRejected"}

\* C1: every change of the tracked job's status made by a status update
\* (updateProgress, setCompleted, setError, the outcome of cancelGeneration)
\* follows an edge of the lifecycle state machine.
C1_StatusFollowsLifecycle ==
    [][lastOp' \in WorkerUpdateOps \cup CancelOutcomeOps
          /\ JobTracked /\ status' # status
         => LifecycleEdge(status, status')]_vars

\* C2: once status is terminal (completed, failed, cancelled) no worker
\* update (updateProgress, setCompleted, setError) changes any store field.
C2_TerminalIsFrozen ==
    [][lastOp' \in WorkerUpdateOps /\ JobTracked
                                    /\ status \in TerminalStatuses
         => UNCHANGED genFields]_vars

\* C3: while the job is non-terminal before and after an updateProgress
\* call, the stored progress does not decrease.
C3_ProgressMonotonic ==
    [][lastOp' = "updateProgress" /\ JobTracked
                                  /\ status \in RunningStatuses
                                  /\ status' \in RunningStatuses
         => progress' >= progress]_vars

\* C4: the outcome of a cancel request that arrives when the job is already
\* terminal changes no store field (status, progress, outputPath and error
\* keep the values of the terminal record, no error is reported).
C4_CancelOnTerminalIsNoOp ==
    [][lastOp' \in CancelOutcomeOps /\ status \in TerminalStatuses
         => UNCHANGED genFields]_vars

\* C5: a second cancelGeneration on a job a first cancelGeneration has made
\* 'cancelled' leaves the store as the first call left it and sets no error.
C5_CancelTwiceIdempotent ==
    [][lastOp' \in CancelOutcomeOps /\ cancelAnswered
                                     /\ status = "cancelled"
         => UNCHANGED genFields]_vars

\* C6: the cancel request resolving does not by itself change status; status
\* becomes 'cancelled' only through a worker status update.
C6_CancelResolveKeepsStatus ==
    [][lastOp' = "cancelResolved" => status' = status]_vars

\* C7: cancelGeneration invoked while status is queued, loading_model,
\* generating or stitching, for a job whose start request has been sent
\* (answered or not), always sends a cancel request.
C7_CancelNeverDropped ==
    [][lastOp' = "cancelGeneration" /\ status \in RunningStatuses
                                    /\ (JobTracked \/ pendingStarts # <<>>)
         => Len(pendingCancels') = Len(pendingCancels) + 1]_vars

\* C8: startGeneration called while the store tracks a non-terminal job
\* leaves currentJobId, status, progress and the chunk fields unchanged.
C8_StartWhileRunningRejected ==
    [][lastOp' = "startGeneration" /\ JobTracked
                                   /\ status \in RunningStatuses
         => UNCHANGED <<currentJobId, status, progress, currentChunk,
                        totalChunks, chunkProgress>>]_vars

\* C9: driven through GenerationPanel, at most one start request is
\* outstanding at a time.
C9_SingleStartOutstanding == Len(pendingStarts) <= 1

\* C10: handleStart with an empty segment list sends no start request,
\* records no job id and leaves status 'idle'.
C10_EmptyScriptNotStarted ==
    [][lastOp' \in {"handleStart", "startGeneration"} /\ Len(segments) = 0
         => /\ pendingStarts' = pendingStarts
            /\ jobsCreated' = jobsCreated
            /\ currentJobId' = currentJobId
            /\ status' = "idle"]_vars

\* C10 witness: handleStart has run on an empty segment list
C10_Witness ==
    /\ lastOp = "handleStart"
    /\ Len(segments) = 0
    /\ status = "idle"
    /\ pendingStarts = <<>>

\* C11: a start request is sent through GenerationPanel only when at least
\* one segment of the editor has non-empty text.
C11_StartNeedsNonEmptyText ==
    [][lastOp' = "startGeneration"
         => \E i \in 1..Len(segments) : segments[i].text # ""]_vars

\* C12: Scenario A through the store.  startGeneration leaves status
\* 'queued' with progress, the chunk fields, error and outputPath cleared;
\* once the start request resolves currentJobId is the id of the job the
\* server returned; and after updateProgress has applied loading_model,
\* generating (chunk 0 of 1), chunk_progress 100 and stitching, and
\* setCompleted(path) the completion, the store holds status 'completed',
\* progress 100, outputPath = path and error null.
C12_ScenarioA ==
    /\ scenarioA = 1 =>
          /\ status = "queued"
          /\ progress = 0
          /\ currentChunk = 0
          /\ totalChunks = 0
          /\ chunkProgress = 0
          /\ error = null
          /\ outputPath = null
    /\ scenarioA = 2 => currentJobId = JobId(jobsCreated)
    /\ scenarioA = 7 =>
          /\ status = "completed"
          /\ progress = 100
          /\ outputPath \in OutputPaths
          /\ error = null

\* C12 witness: Scenario A has been run to its end
C12_Witness ==
    /\ scenarioA = 7
    /\ lastOp = "setCompleted"
    /\ currentJobId # null

\* C13: in every reachable state of the generation store outputPath is
\* non-null only if status is 'completed'.
C13_OutputPathOnlyOnCompleted ==
    (JobTracked /\ outputPath # null) => status = "completed"

\* C14: in every reachable state of the generation store error is non-null
\* only if status is 'failed'; stated for the states a rejected cancel
\* request leaves, where no worker payload is involved.
C14_ErrorOnlyOnFailed ==
    (JobTracked /\ lastOp = "cancelRejected" /\ error # null)
        => status = "failed"

\* C15: a worker failure reported while the tracked job is 'generating'
\* (setError, or updateProgress with status 'failed') leaves status
\* 'failed', a non-empty error message and outputPath null.
C15_WorkerFailureRecorded ==
    [][(/\ lastOp' \in {"setError", "updateProgress"}
        /\ JobTracked
        /\ status = "generating"
        /\ outputPath = null
        /\ status' = "failed")
         => (error' # null /\ outputPath' = null)]_vars

\* C16: whenever an update applied to the generation store increases
\* currentChunk, chunkProgress in the resulting state is 0.
C16_ChunkIncrementResetsChunkProgress ==
    [][(/\ lastOp' = "updateProgress"
        /\ JobTracked
        /\ status = "generating"
        /\ chunksWellFormed'
        /\ currentChunk' > currentChunk)
         => chunkProgress' = 0]_vars

C19_StartRejectionSurfaced ==
    [][lastOp' = "startRejected"
         => (/\ status' = "failed"
             /\ error' \in StartErrors
             /\ currentJobId' = currentJobId
             /\ jobsCreated' = jobsCreated
             /\ Len(pendingStarts') = Len(pendingStarts) - 1)]_vars

\* C19 witness: a first start request has just been rejected
C19_Witness ==
    /\ lastOp = "startRejected"
    /\ status = "failed"
    /\ error \in StartErrors
    /\ currentJobId = null
    /\ jobsCreated = 0

\* C20: the start request sent by startGeneration carries the voice mapping
\* in effect at the time of submission: the editor store's voiceMapping,
\* with every change made through updateVoiceForSpeaker before the start.
C20_StartCarriesVoiceMapping ==
    [][(/\ lastOp' = "startGeneration"
        /\ voiceMapping # DefaultVoiceMapping
        /\ \E i \in 1..Len(segments) : segments[i].text # "")
         => LET request == pendingStarts'[Len(pendingStarts')]
            IN  /\ "voice_mapping" \in DOMAIN request
                /\ request.voice_mapping = voiceMapping]_vars

\* the operations of the store that run only when something calls them
CalledOps ==
    {"startGeneration", "cancelGeneration", "reset",
     "updateProgress", "setCompleted", "setError"}

\* C18: every generation started with startGeneration eventually reaches a
\* terminal status in the store when the server answers every request: the
\* store never remains forever in queued, loading_model, generating or
\* stitching.  Stated for a generation whose start request has just been
\* accepted, with no other request in flight, and in the weaker form that
\* is also satisfied by a further call of a store operation, so that a
\* behaviour violating it is one where the requests are answered and the
\* store is then left to the code alone.
C18_StartedJobTerminates ==
    (/\ JobTracked
     /\ status \in RunningStatuses
     /\ scenarioA = 2
     /\ jobsCreated < MaxJobs
     /\ pendingStarts = <<>>
     /\ pendingCancels = <<>>)
        ~> (status \in TerminalStatuses \/ lastOp \in CalledOps)

\* C22: for every status the store holds after the user's own actions
\* GenerationPanel offers at least one action: Generate Audio when idle,
\* Cancel while running, Start Over once the job has ended; stated for the
\* states the answer to a cancel request leaves.
C22_SomeActionOffered ==
    lastOp \in CancelOutcomeOps
        => (isIdle \/ isRunning \/ isCompleted \/ isFailed)

\* C26: whenever status is 'idle' the store holds no job: currentJobId is
\* null, the counters are 0 and outputPath, error and
\* estimatedTimeRemaining are null; stated for the states left by reset and
\* by the answers to start and cancel requests.
C26_IdleStoreIsEmpty ==
    (/\ status = "idle"
     /\ lastOp \in {"reset", "startResolved", "startRejected"}
                     \cup CancelOutcomeOps) =>
        /\ currentJobId = null
        /\ progress = 0
        /\ currentChunk = 0
        /\ totalChunks = 0
        /\ chunkProgress = 0
        /\ outputPath = null
        /\ error = null
        /\ estimatedTimeRemaining = <<>>

\* C23: the job state GenerationPanel shows on the page of project p
\* belongs to a job that was started for p: whenever the store tracks a
\* job, the project that job was created for is the page's project; stated
\* for the states a navigation leaves.
C23_PanelShowsJobOfItsProject ==
    (JobTracked /\ lastOp = "navigate") => trackedProject = routeProjectId

\* C27: Download Audio acts only when status is 'completed' and outputPath
\* is non-null, and the download it opens names the completed job by its
\* id, the store's currentJobId.
C27_DownloadNamesTheJob ==
    [][(lastOp' = "handleDownload" /\ JobTracked)
         => (/\ status = "completed"
             /\ outputPath # null
             /\ opened' = currentJobId)]_vars

\* C25: whenever ProjectPage renders the project content for route
\* parameter projectId, currentProject.id equals projectId.
C25_RenderedProjectIsRoute ==
    RendersProject => currentProject = routeProjectId

----------------------------------------------------------------------------
\* stop.sh and kill_process of scripts/lib.sh, both under set -euo pipefail.
\* The script is one sequential process; sh.pc names the command it is at.
\* A process that was sent SIGTERM exits when it chooses, or never.

webVars == <<generationVars, editorVars, navVars, projectVars, editorOpVars,
             lastOp>>

\* [[ $count -lt 30 ]]
PollLimit == 30

\* exit status of (( expression )): 1 when the expression evaluates to 0
ArithStatus(value) == IF value = 0 THEN 1 ELSE 0

\* is_process_running: the pid file holds a pid and kill -0 succeeds
is_process_running(name) == sh.pidFile[name] /\ sh.alive[name]

\* where stop_native_processes continues after kill_process name
AfterKill(name) == IF name = "backend" THEN "worker" ELSE "ports"

\* main: load the platform, stop the native processes on apple only
main ==
    /\ sh.pc = "main"
    /\ sh' = [sh EXCEPT
                !.pc = IF sh.platform = "apple" THEN "backend" ELSE "docker"]
    /\ UNCHANGED <<config, webVars>>

\* stop_native_processes: if is_process_running name; then kill_process
stop_native(name) ==
    /\ sh.pc = name
    /\ sh' = IF is_process_running(name)
             THEN [sh EXCEPT !.pc = "kill_process", !.killName = name]
             ELSE [sh EXCEPT !.pc = AfterKill(name)]
    /\ UNCHANGED <<config, webVars>>

\* kill_process up to the loop: get_pid, kill -0, kill, local count=0
kill_process ==
    /\ sh.pc = "kill_process"
    /\ sh' = IF sh.pidFile[sh.killName]
             THEN IF sh.alive[sh.killName]
                  THEN [sh EXCEPT !.termSent[sh.killName] = TRUE,
                                  !.count = 0,
                                  !.pc = "poll"]
                  ELSE [sh EXCEPT !.pidFile[sh.killName] = FALSE,
                                  !.pc = AfterKill(sh.killName)]
             ELSE [sh EXCEPT !.pc = AfterKill(sh.killName)]
    /\ UNCHANGED <<config, webVars>>

\* one test of the while condition and, if it holds, one run of the body:
\* sleep 0.5 and ((count++)), whose value is that of count before the
\* increment; a non-zero status of the body's command ends the script
poll ==
    /\ sh.pc = "poll"
    /\ sh' = IF sh.alive[sh.killName] /\ sh.count < PollLimit
             THEN IF ArithStatus(sh.count) # 0
                  THEN [sh EXCEPT !.count = sh.count + 1,
                                  !.pc = "exited",
                                  !.exitStatus = ArithStatus(sh.count)]
                  ELSE [sh EXCEPT !.count = sh.count + 1]
             ELSE [sh EXCEPT !.pc = "force"]
    /\ UNCHANGED <<config, webVars>>

\* after the loop: kill -9 if kill -0 still succeeds, then rm -f the file
force ==
    /\ sh.pc = "force"
    /\ sh' = [sh EXCEPT !.alive[sh.killName] = FALSE,
                        !.pidFile[sh.killName] = FALSE,
                        !.pc = AfterKill(sh.killName)]
    /\ UNCHANGED <<config, webVars>>

\* lsof -ti:8000 | xargs kill -9 || true: the backend listens on port 8000
ports ==
    /\ sh.pc = "ports"
    /\ sh' = [sh EXCEPT !.alive["backend"] = FALSE, !.pc = "docker"]
    /\ UNCHANGED <<config, webVars>>

\* stop_docker_services: docker compose down || true
stop_docker_services ==
    /\ sh.pc = "docker"
    /\ sh' = [sh EXCEPT !.dockerDown = TRUE,
                        !.pc = IF sh.CLEAN THEN "clean" ELSE "done"]
    /\ UNCHANGED <<config, webVars>>

\* clean_docker_volumes: docker compose down -v || true
clean_docker_volumes ==
    /\ sh.pc = "clean"
    /\ sh' = [sh EXCEPT !.volumesRemoved = TRUE, !.pc = "done"]
    /\ UNCHANGED <<config, webVars>>

\* main returns and the script ends with status 0
finish ==
    /\ sh.pc = "done"
    /\ sh' = [sh EXCEPT !.pc = "exited", !.exitStatus = 0]
    /\ UNCHANGED <<config, webVars>>

\* a process that was sent SIGTERM exits
processExits(name) ==
    /\ sh.alive[name]
    /\ sh.termSent[name]
    /\ sh' = [sh EXCEPT !.alive[name] = FALSE]
    /\ UNCHANGED <<config, webVars>>

Main == main

StopNative == \E name \in Natives : stop_native(name)

KillProcess == kill_process

Poll == poll

Force == force

Ports == ports

StopDockerServices == stop_docker_services

CleanDockerVolumes == clean_docker_volumes

Finish == finish

ProcessExits == \E name \in Natives : processExits(name)

\* ./stop.sh [--clean] starts on any platform, with each native process
\* running or not and its pid file there or not
InitStop ==
    /\ InitStore
    /\ segments = <<>>
    /\ voiceMapping = DefaultVoiceMapping
    /\ InitNavVars
    /\ InitProjectStore
    /\ InitEditorOps
    /\ \E platform \in {"apple", "nvidia", "cpu"} : \E CLEAN \in BOOLEAN :
          \E alive \in [Natives -> BOOLEAN] :
             \E pidFile \in [Natives -> BOOLEAN] :
                sh = ShellAtStart(platform, CLEAN, alive, pidFile)
    /\ config = NoConfig

NextStop ==
    \/ Main
    \/ StopNative
    \/ KillProcess
    \/ Poll
    \/ Force
    \/ Ports
    \/ StopDockerServices
    \/ CleanDockerVolumes
    \/ Finish
    \/ ProcessExits

SpecStop == InitStop /\ [][NextStop]_vars

----------------------------------------------------------------------------
\* save_config and load_config of scripts/lib.sh.  A line of the file and a
\* key, a value or a default are sequences of characters.

ConfigKeys == {<<"a", ".", "b">>, <<"a", "x", "b">>, <<"a">>, <<"b">>}

ConfigValues == {<<"1">>, <<"2">>}

ConfigDefaults == {<<"d">>}

\* grep "^${key}=": the key is used as a regular expression, in which a
\* dot stands for any character and the letters stand for themselves
MatchesKey(key, line) ==
    /\ Len(line) > Len(key)
    /\ \A i \in 1..Len(key) : key[i] = "." \/ key[i] = line[i]
    /\ line[Len(key) + 1] = "="

\* cut -d'=' -f2-: what follows the first "=" of the line
CutValue(line) ==
    LET first == CHOOSE i \in 1..Len(line) :
                    /\ line[i] = "="
                    /\ \A j \in 1..(i - 1) : line[j] # "="
    IN  SubSeq(line, first + 1, Len(line))

\* what load_config key default prints, as a sequence of lines
load_config_output(exists, file, key, default) ==
    LET matched == SelectSeq(file, LAMBDA line : MatchesKey(key, line))
        value == [i \in 1..Len(matched) |-> CutValue(matched[i])]
    IN  IF exists /\ \E i \in 1..Len(value) : value[i] # <<>>
        THEN value
        ELSE <<default>>

\* save_config: grep -v the key's lines away if the file exists, then
\* append key=value
save_config(key, value) ==
    /\ config' =
          [config EXCEPT
              !.file = Append(IF config.exists
                              THEN SelectSeq(config.file,
                                      LAMBDA line : ~MatchesKey(key, line))
                              ELSE config.file,
                              key \o <<"=">> \o value),
              !.exists = TRUE]
    /\ lastOp' = "save_config"
    /\ UNCHANGED <<sh, generationVars, editorVars, navVars, projectVars,
                   editorOpVars>>

load_config(key, default) ==
    /\ config' =
          [config EXCEPT
              !.loaded = load_config_output(config.exists, config.file,
                                            key, default)]
    /\ lastOp' = "load_config"
    /\ UNCHANGED <<sh, generationVars, editorVars, navVars, projectVars,
                   editorOpVars>>

SaveConfig ==
    \E key \in ConfigKeys : \E value \in ConfigValues : save_config(key, value)

LoadConfig ==
    \E key \in ConfigKeys : \E default \in ConfigDefaults :
        load_config(key, default)

InitConfig ==
    /\ InitStore
    /\ segments = <<>>
    /\ voiceMapping = DefaultVoiceMapping
    /\ InitAux

NextConfig ==
    \/ SaveConfig
    \/ LoadConfig

SpecConfig == InitConfig /\ [][NextConfig]_vars

\* C24: the editor store's segments reflect the most recent request: when
\* the responses to two loadSegments calls have arrived one after the
\* other and no request is in flight any more, the segments held are the
\* response for the project that loadSegments was called for last,
\* whatever the arrival order.
C24_SegmentsOfLastRequest ==
    [][(/\ lastOp = "loadSegmentsResolved"
        /\ lastOp' = "loadSegmentsResolved"
        /\ pendingEditor' = <<>>)
           => segments' = StoredSegments(routeProjectId')]_vars

\* C28: selectedSegmentId is null or the id of a segment in segments.
C28_SelectionIsInList ==
    selectedSegmentId = null \/ selectedSegmentId \in IdSet(segments)

\* what reorderSegments(fromIndex, toIndex) promises of a step
ReorderPost(fromIndex, toIndex) ==
    /\ Len(segments') = Len(segments)
    /\ IdSet(segments') = IdSet(segments)
    /\ segments'[toIndex + 1].id = segments[fromIndex + 1].id
    /\ RemoveAt(Ids(segments'), toIndex + 1)
          = RemoveAt(Ids(segments), fromIndex + 1)
    /\ \A k \in 1..Len(segments') :
          /\ segments'[k].order = k - 1
          /\ \E j \in 1..Len(segments) :
                segments[j] = [segments'[k] EXCEPT !.order = segments[j].order]
    /\ isDirty'
    /\ selectedSegmentId' = selectedSegmentId
    /\ voiceMapping' = voiceMapping

\* C29: reorderSegments(fromIndex, toIndex) with both indices in range
\* keeps the same segments, puts the one formerly at fromIndex at toIndex,
\* keeps the relative order of the others, sets every order field to the
\* index, sets isDirty and leaves selectedSegmentId and voiceMapping alone.
C29_ReorderMovesOneSegment ==
    [][\A fromIndex \in 0..(Len(segments) - 1) :
         \A toIndex \in 0..(Len(segments) - 1) :
            reorderSegments(fromIndex, toIndex)
                => ReorderPost(fromIndex, toIndex)]_vars

\* C29 witness: on a list of three segments, one of them selected, the
\* first segment has been moved to the end
C29_Witness ==
    /\ lastOp = "reorderSegments"
    /\ Ids(segments) = <<SegmentId(2), SegmentId(3), SegmentId(1)>>
    /\ selectedSegmentId = SegmentId(1)
    /\ isDirty

\* C21: stop.sh on the apple platform always goes on to stop the worker
\* and the Docker services after stopping the backend, however long the
\* backend takes to exit: when the script has ended on apple, kill_process
\* has returned to its caller each time, the Docker services are stopped
\* and no pid file of a native process is left with its process running.
C21_StopGoesOnToDocker ==
    (sh.pc = "exited" /\ sh.platform = "apple")
        => /\ sh.exitStatus = 0
           /\ sh.dockerDown
           /\ \A name \in Natives : ~is_process_running(name)

\* C30: the config file behaves as a key-value map: saving one key never
\* changes what load_config returns for another key.
C30_SaveKeepsOtherKeys ==
    [][\A key \in ConfigKeys : \A value \in ConfigValues :
          save_config(key, value)
              => \A other \in ConfigKeys \ {key} :
                    \A default \in ConfigDefaults :
                        load_config_output(config'.exists, config'.file,
                                           other, default)
                          = load_config_output(config.exists, config.file,
                                               other, default)]_vars

====
